---- MODULE Spec2Model ----
(***************************************************************************)
(* A model of rust-todo-cli: the TodoList task store (src/src/todo.rs),    *)
(* its JSON persistence, the command parser (src/src/parse.rs) and the     *)
(* read-eval loop of main (src/src/main.rs).                               *)
(*                                                                         *)
(* Text is modelled as a sequence of one-character strings, so that trim,  *)
(* to_lowercase, split_whitespace and the JSON writer and reader work on   *)
(* the characters as the code does.                                        *)
(*                                                                         *)
(* Two specifications:                                                     *)
(*   Spec      the TodoList API, called with arbitrary arguments;          *)
(*   SpecMain  the program: load at startup, one command per input line,   *)
(*             save on exit, and a later session started on the same file. *)
(***************************************************************************)
EXTENDS Integers, Sequences, FiniteSets, TLC

VARIABLES tasks, file, pc, call, old, ret, saved

vars == <<tasks, file, pc, call, old, ret, saved>>

(***************************************************************************)
(* Bounds                                                                  *)
(***************************************************************************)
\* the model stops adding once the store holds this many tasks
MaxTasks == 3

(***************************************************************************)
(* Characters and text                                                     *)
(***************************************************************************)
UpperAlpha ==
    <<"A","B","C","D","E","F","G","H","I","J","K","L","M",
      "N","O","P","Q","R","S","T","U","V","W","X","Y","Z">>

LowerAlpha ==
    <<"a","b","c","d","e","f","g","h","i","j","k","l","m",
      "n","o","p","q","r","s","t","u","v","w","x","y","z">>

\* char::is_whitespace on the characters the inputs use
is_whitespace(c) == c \in {" ", "\t", "\n", "\r"}

\* char lowercasing (ASCII letters; every other character is kept)
to_lowercase_char(c) ==
    IF \E i \in 1..26 : UpperAlpha[i] = c
    THEN LowerAlpha[CHOOSE i \in 1..26 : UpperAlpha[i] = c]
    ELSE c

\* str::to_lowercase
to_lowercase(s) == [i \in 1..Len(s) |-> to_lowercase_char(s[i])]

RECURSIVE trim_start(_)
trim_start(s) ==
    IF s = <<>> THEN <<>>
    ELSE IF is_whitespace(Head(s)) THEN trim_start(Tail(s))
    ELSE s

RECURSIVE trim_end(_)
trim_end(s) ==
    IF s = <<>> THEN <<>>
    ELSE IF is_whitespace(s[Len(s)]) THEN trim_end(SubSeq(s, 1, Len(s) - 1))
    ELSE s

\* str::trim: leading and trailing whitespace removed
trim(s) == trim_end(trim_start(s))

(***************************************************************************)
(* Status and TodoError                                                    *)
(***************************************************************************)
Status == {"Todo", "InProgress", "Completed"}

s_todo       == <<"t","o","d","o">>
s_to_do      == <<"t","o","-","d","o">>
s_done       == <<"d","o","n","e">>
s_completed  == <<"c","o","m","p","l","e","t","e","d">>
s_in_progress == <<"i","n","-","p","r","o","g","r","e","s","s">>
s_inprogress == <<"i","n","p","r","o","g","r","e","s","s">>

\* Result values: Ok variants and the TodoError variants
Ok            == [kind |-> "Ok"]
OkStatus(s)   == [kind |-> "OkStatus", status |-> s]
OkTask(t)     == [kind |-> "OkTask", task |-> t]
OkCount(n)    == [kind |-> "OkCount", n |-> n]
OkList(l)     == [kind |-> "OkList", items |-> l]
OkStore(ts)   == [kind |-> "OkStore", tasks |-> ts]
InvalidIndex  == [kind |-> "InvalidIndex"]
InvalidStatus(text) == [kind |-> "InvalidStatus", text |-> text]
IndexOutOfBound(i)  == [kind |-> "IndexOutOfBound", index |-> i]
EmptyDescription    == [kind |-> "EmptyDescription"]
SerializationError  == [kind |-> "SerializationError"]
FileError           == [kind |-> "FileError"]

ErrorKinds ==
    {"InvalidIndex", "InvalidStatus", "IndexOutOfBound", "EmptyDescription",
     "SerializationError", "FileError"}

is_ok(r) == r.kind \notin ErrorKinds

\* Status::from_str
Status_from_str(status_str) ==
    LET l == to_lowercase(status_str) IN
    IF l = s_todo \/ l = s_to_do THEN OkStatus("Todo")
    ELSE IF l = s_done \/ l = s_completed THEN OkStatus("Completed")
    ELSE IF l = s_in_progress \/ l = s_inprogress THEN OkStatus("InProgress")
    ELSE InvalidStatus(status_str)

(***************************************************************************)
(* Task                                                                    *)
(***************************************************************************)
Task(d, s) == [description |-> d, status |-> s]

\* Task::new storing the description as given, untrimmed
Task_new_untrimmed(description) ==
    IF trim(description) = <<>>
    THEN EmptyDescription
    ELSE OkTask(Task(description, "Todo"))

\* Task::new
Task_new(description) ==
    IF trim(description) = <<>>
    THEN EmptyDescription
    ELSE OkTask(Task(trim(description), "Todo"))

\* is_completed taking every task that is not Todo for completed
is_completed_or_started(task) == task.status # "Todo"

\* Task::is_completed
is_completed(task) == task.status = "Completed"

(***************************************************************************)
(* TodoList: every method maps the task vector to the new vector and the   *)
(* value returned                                                          *)
(***************************************************************************)
Outcome(ts, r) == [tasks |-> ts, ret |-> r]

\* TodoList::new
TodoList_new == <<>>

\* TodoList::add_tasks
add_tasks(ts, description) ==
    LET task == Task_new(description) IN
    IF ~is_ok(task) THEN Outcome(ts, task)
    ELSE Outcome(Append(ts, task.task), Ok)

\* TodoList::list_tasks: enumerate from 0, report i + 1
list_tasks(ts) ==
    [j \in 1..Len(ts) |-> <<(j - 1) + 1, ts[j]>>]

RECURSIVE filter_enumerated(_, _, _)
filter_enumerated(ts, i, status) ==
    IF i >= Len(ts) THEN <<>>
    ELSE IF ts[i + 1].status = status
         THEN <<(<<i + 1, ts[i + 1]>>)>> \o filter_enumerated(ts, i + 1, status)
         ELSE filter_enumerated(ts, i + 1, status)

RECURSIVE renumber(_, _)
renumber(items, j) ==
    IF items = <<>> THEN <<>>
    ELSE <<(<<j, Head(items)[2]>>)>> \o renumber(Tail(items), j + 1)

\* filter_by_status enumerating after the filter: positions among the matches
filter_by_status_renumbered(ts, status) ==
    renumber(filter_enumerated(ts, 0, status), 1)

\* TodoList::filter_by_status: enumerate from 0, keep the matches, report i + 1
filter_by_status(ts, status) == filter_enumerated(ts, 0, status)

\* validate_index reporting the 0-based offset in IndexOutOfBound
validate_index_offset(ts, index) ==
    IF index = 0 THEN InvalidIndex
    ELSE IF index > Len(ts) THEN IndexOutOfBound(index - 1)
    ELSE Ok

\* TodoList::validate_index
validate_index(ts, index) ==
    IF index = 0 THEN InvalidIndex
    ELSE IF index > Len(ts) THEN IndexOutOfBound(index)
    ELSE Ok

\* TodoList::update_task_status
update_task_status(ts, index, new_status) ==
    LET v == validate_index(ts, index) IN
    IF ~is_ok(v) THEN Outcome(ts, v)
    ELSE Outcome([ts EXCEPT ![index - 1 + 1].status = new_status], Ok)

\* update_task_status_str validating the index before parsing the text
update_task_status_str_index_first(ts, index, status_str) ==
    LET v == validate_index(ts, index)
        new_status == Status_from_str(status_str)
    IN
    IF ~is_ok(v) THEN Outcome(ts, v)
    ELSE IF ~is_ok(new_status) THEN Outcome(ts, new_status)
    ELSE update_task_status(ts, index, new_status.status)

\* TodoList::update_task_status_str
update_task_status_str(ts, index, status_str) ==
    LET new_status == Status_from_str(status_str) IN
    IF ~is_ok(new_status) THEN Outcome(ts, new_status)
    ELSE update_task_status(ts, index, new_status.status)

\* Vec::remove(at): the element at 0-based position at is taken out
vec_remove(ts, at) ==
    SubSeq(ts, 1, at) \o SubSeq(ts, at + 2, Len(ts))

\* remove_task with Vec::swap_remove: the last task takes the freed place
remove_task_swap(ts, index) ==
    LET v == validate_index(ts, index) IN
    IF ~is_ok(v) THEN Outcome(ts, v)
    ELSE Outcome(
           IF index = Len(ts) THEN SubSeq(ts, 1, Len(ts) - 1)
           ELSE SubSeq([ts EXCEPT ![index] = ts[Len(ts)]], 1, Len(ts) - 1),
           OkTask(ts[index - 1 + 1]))

\* TodoList::remove_task
remove_task(ts, index) ==
    LET v == validate_index(ts, index) IN
    IF ~is_ok(v) THEN Outcome(ts, v)
    ELSE Outcome(vec_remove(ts, index - 1), OkTask(ts[index - 1 + 1]))

RECURSIVE retain_not_completed(_)
retain_not_completed(ts) ==
    IF ts = <<>> THEN <<>>
    ELSE IF ~is_completed(Head(ts))
         THEN <<Head(ts)>> \o retain_not_completed(Tail(ts))
         ELSE retain_not_completed(Tail(ts))

\* TodoList::clear_completed
clear_completed(ts) ==
    LET original_len == Len(ts)
        kept == retain_not_completed(ts)
    IN Outcome(kept, OkCount(original_len - Len(kept)))

(***************************************************************************)
(* Persistence: serde_json::to_string_pretty and serde_json::from_str on   *)
(* Vec<Task>, and the file they are written to and read from               *)
(***************************************************************************)
k_description == <<"d","e","s","c","r","i","p","t","i","o","n">>
k_status      == <<"s","t","a","t","u","s">>

v_Todo        == <<"T","o","d","o">>
v_InProgress  == <<"I","n","P","r","o","g","r","e","s","s">>
v_Completed   == <<"C","o","m","p","l","e","t","e","d">>

\* derive(Serialize) on Status: a unit variant is written as its name
variant_name(status) ==
    CASE status = "Todo" -> v_Todo
      [] status = "InProgress" -> v_InProgress
      [] status = "Completed" -> v_Completed

\* a string writer that escapes the quote and the control characters but
\* not the backslash
json_escape_char_no_backslash(c) ==
    CASE c = "\"" -> <<"\\", "\"">>
      [] c = "\n" -> <<"\\", "n">>
      [] c = "\t" -> <<"\\", "t">>
      [] c = "\r" -> <<"\\", "r">>
      [] OTHER -> <<c>>

\* serde_json string writer: quote, backslash and control characters escaped
json_escape_char(c) ==
    CASE c = "\"" -> <<"\\", "\"">>
      [] c = "\\" -> <<"\\", "\\">>
      [] c = "\n" -> <<"\\", "n">>
      [] c = "\t" -> <<"\\", "t">>
      [] c = "\r" -> <<"\\", "r">>
      [] OTHER -> <<c>>

RECURSIVE json_escape(_)
json_escape(s) ==
    IF s = <<>> THEN <<>>
    ELSE json_escape_char(Head(s)) \o json_escape(Tail(s))

json_write_string(s) == <<"\"">> \o json_escape(s) \o <<"\"">>

\* derive(Serialize) on Task under the pretty formatter, at indent level 1
json_write_task(task) ==
    <<" ", " ", "{", "\n">>
    \o <<" ", " ", " ", " ">> \o json_write_string(k_description)
    \o <<":", " ">> \o json_write_string(task.description) \o <<",", "\n">>
    \o <<" ", " ", " ", " ">> \o json_write_string(k_status)
    \o <<":", " ">> \o json_write_string(variant_name(task.status)) \o <<"\n">>
    \o <<" ", " ", "}">>

RECURSIVE json_write_elements(_, _)
json_write_elements(ts, first) ==
    IF ts = <<>> THEN <<>>
    ELSE (IF first THEN <<"\n">> ELSE <<",", "\n">>)
         \o json_write_task(Head(ts))
         \o json_write_elements(Tail(ts), FALSE)

\* serde_json::to_string_pretty(&self.tasks)
to_string_pretty(ts) ==
    IF ts = <<>> THEN <<"[", "]">>
    ELSE <<"[">> \o json_write_elements(ts, TRUE) \o <<"\n", "]">>

\* reader results: the position after the value read, and the value
Parsed(p, v) == [ok |-> TRUE, pos |-> p, val |-> v]
ParseFail    == [ok |-> FALSE, pos |-> 0, val |-> <<>>]

\* the character at position i, or "" past the end of the text
char_at(s, i) == IF i >= 1 /\ i <= Len(s) THEN s[i] ELSE ""

RECURSIVE json_skip_ws(_, _)
json_skip_ws(s, i) ==
    IF char_at(s, i) \in {" ", "\n", "\t", "\r"} THEN json_skip_ws(s, i + 1)
    ELSE i

\* the character an escape stands for, or "" for an escape the model rejects
json_unescape_char(c) ==
    CASE c = "\"" -> "\""
      [] c = "\\" -> "\\"
      [] c = "/" -> "/"
      [] c = "n" -> "\n"
      [] c = "t" -> "\t"
      [] c = "r" -> "\r"
      [] OTHER -> ""

RECURSIVE json_read_string_body(_, _, _)
json_read_string_body(s, i, acc) ==
    LET c == char_at(s, i) IN
    IF c = "" THEN ParseFail
    ELSE IF c = "\"" THEN Parsed(i + 1, acc)
    ELSE IF c = "\\"
         THEN IF json_unescape_char(char_at(s, i + 1)) = "" THEN ParseFail
              ELSE json_read_string_body(s, i + 2,
                       Append(acc, json_unescape_char(char_at(s, i + 1))))
    ELSE IF c \in {"\n", "\t", "\r"} THEN ParseFail
    ELSE json_read_string_body(s, i + 1, Append(acc, c))

\* a JSON string starting at position i
json_read_string(s, i) ==
    IF char_at(s, i) # "\"" THEN ParseFail
    ELSE json_read_string_body(s, i + 1, <<>>)

Unset    == [set |-> FALSE, val |-> <<>>]
Field(v) == [set |-> TRUE, val |-> v]

\* derive(Deserialize) on Status: the variant named by the text
variant_of(name) ==
    IF name = v_Todo THEN "Todo"
    ELSE IF name = v_InProgress THEN "InProgress"
    ELSE IF name = v_Completed THEN "Completed"
    ELSE "none"

\* derive(Deserialize) on Task, map form: the members from position i on;
\* a duplicate field, an unknown variant or a missing field is an error, an
\* unknown key is skipped.  Member values are JSON strings.
RECURSIVE json_read_members(_, _, _, _)
json_read_members(s, i, d, st) ==
    LET key == json_read_string(s, i)
        colon == json_skip_ws(s, key.pos)
        value == json_read_string(s, json_skip_ws(s, colon + 1))
        dup == \/ (key.val = k_description /\ d.set)
               \/ (key.val = k_status /\ st.set)
        bad_variant == key.val = k_status /\ variant_of(value.val) = "none"
        d2 == IF key.val = k_description THEN Field(value.val) ELSE d
        st2 == IF key.val = k_status THEN Field(variant_of(value.val)) ELSE st
        next == json_skip_ws(s, value.pos)
    IN
    IF ~key.ok THEN ParseFail
    ELSE IF char_at(s, colon) # ":" THEN ParseFail
    ELSE IF ~value.ok THEN ParseFail
    ELSE IF dup \/ bad_variant THEN ParseFail
    ELSE IF char_at(s, next) = ","
         THEN json_read_members(s, json_skip_ws(s, next + 1), d2, st2)
    ELSE IF char_at(s, next) = "}"
         THEN IF d2.set /\ st2.set
              THEN Parsed(next + 1, Task(d2.val, st2.val))
              ELSE ParseFail
    ELSE ParseFail

\* a Task object starting at position i
json_read_task(s, i) ==
    IF char_at(s, i) # "{" THEN ParseFail
    ELSE json_read_members(s, json_skip_ws(s, i + 1), Unset, Unset)

RECURSIVE json_read_elements(_, _, _)
json_read_elements(s, i, acc) ==
    LET task == json_read_task(s, i)
        next == json_skip_ws(s, task.pos)
    IN
    IF ~task.ok THEN ParseFail
    ELSE IF char_at(s, next) = ","
         THEN json_read_elements(s, json_skip_ws(s, next + 1),
                                 Append(acc, task.val))
    ELSE IF char_at(s, next) = "]" THEN Parsed(next + 1, Append(acc, task.val))
    ELSE ParseFail

\* serde_json::from_str::<Vec<Task>>: one array, then only whitespace
from_str(s) ==
    LET start == json_skip_ws(s, 1)
        first == json_skip_ws(s, start + 1)
        arr == IF char_at(s, start) # "[" THEN ParseFail
               ELSE IF char_at(s, first) = "]" THEN Parsed(first + 1, <<>>)
               ELSE json_read_elements(s, first, <<>>)
    IN
    IF ~arr.ok THEN SerializationError
    ELSE IF json_skip_ws(s, arr.pos) <= Len(s) THEN SerializationError
    ELSE OkStore(arr.val)

\* the file at DATA_FILE: absent, text, or bytes that are not UTF-8
Absent      == [kind |-> "absent", text |-> <<>>]
TextFile(t) == [kind |-> "text", text |-> t]
BinaryFile  == [kind |-> "binary", text |-> <<>>]

\* fs::write outcomes: written; File::create fails and the file is as it
\* was; the write fails after File::create truncated the file
IoOutcomes == {"written", "create_failed", "write_failed"}

\* Storable::save: the file afterwards and the value returned
save(ts, f, io) ==
    LET json == to_string_pretty(ts) IN
    CASE io = "written" -> [file |-> TextFile(json), ret |-> Ok]
      [] io = "create_failed" -> [file |-> f, ret |-> FileError]
      [] io = "write_failed" -> [file |-> TextFile(<<>>), ret |-> FileError]

\* load taking an absent file for an empty list
load_absent_is_empty(f) ==
    IF f.kind = "text" THEN from_str(f.text)
    ELSE IF f.kind = "absent" THEN OkStore(<<>>)
    ELSE FileError

\* Storable::load
load(f) ==
    IF f.kind = "text" THEN from_str(f.text)
    ELSE FileError

(***************************************************************************)
(* Inputs of the TodoList API                                              *)
(***************************************************************************)
\* descriptions passed to add_tasks: empty, whitespace only, plain, padded
\* with whitespace, and with whitespace inside
RawDescs ==
    { <<>>,
      <<" ", "\t">>,
      <<"a">>,
      <<" ", "a", "\n">>,
      <<"b", " ", "c">> }

\* status texts passed to update_task_status_str: the six aliases in mixed
\* case, and a text that is no alias
StatusTexts ==
    { <<"t","o","d","o">>,
      <<"T","o","-","D","o">>,
      <<"D","O","N","E">>,
      <<"c","o","m","p","l","e","t","e","d">>,
      <<"i","n","-","p","r","o","g","r","e","s","s">>,
      <<"I","n","P","r","o","g","r","e","s","s">>,
      <<"d","o","i","n","g">> }

\* 1-based indices passed by callers: 0, the valid ones, one and two past the end
Indices == 0..(MaxTasks + 2)

\* hand-written file contents, read by load:
\*   [{"status":"Completed","description":" "}]
SeedBlankDescription ==
    <<"[", "{">> \o json_write_string(k_status) \o <<":">>
    \o json_write_string(v_Completed) \o <<",">>
    \o json_write_string(k_description) \o <<":">>
    \o <<"\"", " ", "\"">> \o <<"}", "]">>

\*   [ {"description":"a\" \\b","status":"Todo"} ,
\*     { "status" : "InProgress", "description":"a\" \\b"} ]
SeedTwoTasks ==
    <<"[", " ", "{">> \o json_write_string(k_description) \o <<":">>
    \o <<"\"", "a", "\\", "\"", " ", "\\", "\\", "b", "\"">> \o <<",">>
    \o json_write_string(k_status) \o <<":">> \o json_write_string(v_Todo)
    \o <<"}", " ", ",", "\n", "{", " ">>
    \o json_write_string(k_status) \o <<" ", ":", " ">>
    \o json_write_string(v_InProgress) \o <<",", " ">>
    \o json_write_string(k_description) \o <<":">>
    \o <<"\"", "a", "\\", "\"", " ", "\\", "\\", "b", "\"">>
    \o <<"}", " ", "]", "\n">>

\*   [{"description":"a"}]            no status field
SeedMissingStatus ==
    <<"[", "{">> \o json_write_string(k_description) \o <<":">>
    \o <<"\"", "a", "\"">> \o <<"}", "]">>

\*   [{"description":"a","status":"done"}]   an alias, not a variant name
SeedAliasStatus ==
    <<"[", "{">> \o json_write_string(k_description) \o <<":">>
    \o <<"\"", "a", "\"">> \o <<",">> \o json_write_string(k_status)
    \o <<":">> \o json_write_string(s_done) \o <<"}", "]">>

\*   [{"description":"a","status":"Todo"}     the array is not closed
SeedTruncated ==
    <<"[", "{">> \o json_write_string(k_description) \o <<":">>
    \o <<"\"", "a", "\"">> \o <<",">> \o json_write_string(k_status)
    \o <<":">> \o json_write_string(v_Todo) \o <<"}">>

(***************************************************************************)
(* Specification Spec: the TodoList API                                    *)
(***************************************************************************)
NoSave == [some |-> FALSE, tasks |-> <<>>]

\* files handed to TodoList::load by an API caller; the file read is recorded
\* in call.from, and the variable file (DATA_FILE of the running program)
\* stays as it is under Spec
ApiFiles ==
    { Absent, BinaryFile, TextFile(SeedBlankDescription),
      TextFile(SeedMissingStatus) }

\* a method was called: the store, the call, the store before it and the
\* value returned
Called(c, out) ==
    /\ tasks' = out.tasks
    /\ ret' = out.ret
    /\ old' = tasks
    /\ call' = c
    /\ UNCHANGED <<file, pc, saved>>

Init ==
    /\ tasks = TodoList_new
    /\ file = Absent
    /\ pc = "api"
    /\ call = [op |-> "new"]
    /\ old = <<>>
    /\ ret = Ok
    /\ saved = NoSave

\* TodoList::load(path) gives the caller a new store, or an error and no store
Load ==
    /\ pc = "api"
    /\ \E f \in ApiFiles :
         LET r == load(f) IN
         Called([op |-> "load", from |-> f],
                Outcome(IF is_ok(r) THEN r.tasks ELSE tasks, r))

AddTasks ==
    /\ pc = "api"
    /\ Len(tasks) < MaxTasks
    /\ \E d \in RawDescs :
         Called([op |-> "add", description |-> d], add_tasks(tasks, d))

ListTasks ==
    /\ pc = "api"
    /\ Called([op |-> "list"], Outcome(tasks, OkList(list_tasks(tasks))))

FilterByStatus ==
    /\ pc = "api"
    /\ \E s \in Status :
         Called([op |-> "filter", status |-> s],
                Outcome(tasks, OkList(filter_by_status(tasks, s))))

UpdateTaskStatus ==
    /\ pc = "api"
    /\ \E i \in Indices, s \in Status :
         Called([op |-> "update", index |-> i, status |-> s],
                update_task_status(tasks, i, s))

UpdateTaskStatusStr ==
    /\ pc = "api"
    /\ \E i \in Indices, t \in StatusTexts :
         Called([op |-> "update_str", index |-> i, text |-> t],
                update_task_status_str(tasks, i, t))

RemoveTask ==
    /\ pc = "api"
    /\ \E i \in Indices :
         Called([op |-> "remove", index |-> i], remove_task(tasks, i))

ClearCompleted ==
    /\ pc = "api"
    /\ Called([op |-> "clear"], clear_completed(tasks))

Next ==
    \/ Load
    \/ AddTasks
    \/ ListTasks
    \/ FilterByStatus
    \/ UpdateTaskStatus
    \/ UpdateTaskStatusStr
    \/ RemoveTask
    \/ ClearCompleted

Spec == Init /\ [][Next]_vars

(***************************************************************************)
(* The command parser (parse.rs)                                           *)
(***************************************************************************)
RECURSIVE take_word(_)
take_word(s) ==
    IF s = <<>> \/ is_whitespace(Head(s)) THEN <<>>
    ELSE <<Head(s)>> \o take_word(Tail(s))

\* str::split_whitespace: the maximal runs of non-whitespace characters
RECURSIVE split_whitespace(_)
split_whitespace(s) ==
    LET rest == trim_start(s)
        word == take_word(rest)
    IN IF rest = <<>> THEN <<>>
       ELSE <<word>> \o split_whitespace(SubSeq(rest, Len(word) + 1, Len(rest)))

\* [&str]::join(" ")
RECURSIVE join(_)
join(parts) ==
    IF parts = <<>> THEN <<>>
    ELSE IF Len(parts) = 1 THEN parts[1]
    ELSE parts[1] \o <<" ">> \o join(Tail(parts))

Digits == <<"0", "1", "2", "3", "4", "5", "6", "7", "8", "9">>

is_digit(c) == \E i \in 1..10 : Digits[i] = c

digit_value(c) == (CHOOSE i \in 1..10 : Digits[i] = c) - 1

RECURSIVE digits_value(_, _)
digits_value(s, acc) ==
    IF s = <<>> THEN acc
    ELSE digits_value(Tail(s), acc * 10 + digit_value(Head(s)))

\* str::parse::<usize>: an optional + and at least one digit, nothing else
\* (the inputs are short: no value reaches the width of usize)
parse_usize(s) ==
    LET digits == IF s # <<>> /\ Head(s) = "+" THEN Tail(s) ELSE s IN
    IF digits = <<>> \/ \E i \in 1..Len(digits) : ~is_digit(digits[i])
    THEN [ok |-> FALSE, val |-> 0]
    ELSE [ok |-> TRUE, val |-> digits_value(digits, 0)]

w_exit   == <<"e","x","i","t">>
w_quit   == <<"q","u","i","t">>
w_help   == <<"h","e","l","p">>
w_list   == <<"l","i","s","t">>
w_ls     == <<"l","s">>
w_add    == <<"a","d","d">>
w_update == <<"u","p","d","a","t","e">>
w_status == <<"s","t","a","t","u","s">>
w_remove == <<"r","e","m","o","v","e">>
w_delete == <<"d","e","l","e","t","e">>
w_clear  == <<"c","l","e","a","r">>
w_save   == <<"s","a","v","e">>

\* enum Command
CmdExit                == [kind |-> "Exit"]
CmdHelp                == [kind |-> "Help"]
CmdList                == [kind |-> "List"]
CmdListByStatus(s)     == [kind |-> "ListByStatus", status |-> s]
CmdAdd(d)              == [kind |-> "Add", description |-> d]
CmdUpdate(i, t)        == [kind |-> "Update", index |-> i, text |-> t]
CmdRemove(i)           == [kind |-> "Remove", index |-> i]
CmdClear               == [kind |-> "Clear"]
CmdSave                == [kind |-> "Save"]
CmdUnknown(t)          == [kind |-> "Unknown", text |-> t]

\* parse_command
parse_command(input) ==
    LET parts == split_whitespace(input)
        verb == to_lowercase(parts[1])
    IN
    IF parts = <<>> THEN CmdUnknown(<<>>)
    ELSE IF verb = w_exit \/ verb = w_quit THEN CmdExit
    ELSE IF verb = w_help THEN CmdHelp
    ELSE IF verb = w_list \/ verb = w_ls
         THEN IF Len(parts) > 1 /\ is_ok(Status_from_str(parts[2]))
              THEN CmdListByStatus(Status_from_str(parts[2]).status)
              ELSE CmdList
    ELSE IF verb = w_add
         THEN IF Len(parts) < 2 THEN CmdUnknown(w_add)
              ELSE CmdAdd(join(SubSeq(parts, 2, Len(parts))))
    ELSE IF verb = w_update \/ verb = w_status
         THEN IF Len(parts) < 3 THEN CmdUnknown(w_update)
              ELSE IF parse_usize(parts[2]).ok
                   THEN CmdUpdate(parse_usize(parts[2]).val, parts[3])
                   ELSE CmdUnknown(w_update)
    ELSE IF verb = w_remove \/ verb = w_delete
         THEN IF Len(parts) < 2 THEN CmdUnknown(w_remove)
              ELSE IF parse_usize(parts[2]).ok
                   THEN CmdRemove(parse_usize(parts[2]).val)
                   ELSE CmdUnknown(w_remove)
    ELSE IF verb = w_clear THEN CmdClear
    ELSE IF verb = w_save THEN CmdSave
    ELSE CmdUnknown(input)

\* handle_add
handle_add(ts, description) == add_tasks(ts, description)

\* handle_update
handle_update(ts, index, status_str) ==
    update_task_status_str(ts, index, status_str)

\* handle_remove
handle_remove(ts, index) == remove_task(ts, index)

\* handle_clear
handle_clear(ts) == clear_completed(ts)

\* handle_save
handle_save(ts, f, io) == save(ts, f, io)

\* parse::list_tasks(todo, filter_status): the rows printed
print_tasks(ts, c) ==
    IF c.kind = "ListByStatus" THEN filter_by_status(ts, c.status)
    ELSE list_tasks(ts)

(***************************************************************************)
(* Inputs of the program                                                   *)
(***************************************************************************)
\* exit\n
line_exit == <<"e", "x", "i", "t", "\n">>

\* QUIT
line_quit == <<"Q", "U", "I", "T">>

\* help\n
line_help == <<"h", "e", "l", "p", "\n">>

\* list\n
line_list == <<"l", "i", "s", "t", "\n">>

\* ls Done\n
line_ls_done == <<"l", "s", " ", "D", "o", "n", "e", "\n">>

\* list bogus\n
line_list_bogus == <<"l", "i", "s", "t", " ", "b", "o", "g", "u", "s", "\n">>

\* add\n
line_add_nothing == <<"a", "d", "d", "\n">>

\* add  a"  \\b\n
line_add == <<"a", "d", "d", " ", " ", "a", "\"", " ", " ", "\\", "b", "\n">>

\* status 1 done\n
line_status_done == <<"s", "t", "a", "t", "u", "s", " ", "1", " ", "d", "o", "n", "e", "\n">>

\* update 2 InProgress\n
line_update_inprogress == <<"u", "p", "d", "a", "t", "e", " ", "2", " ", "I", "n", "P", "r", "o", "g", "r", "e", "s", "s", "\n">>

\* update 1 doing\n
line_update_doing == <<"u", "p", "d", "a", "t", "e", " ", "1", " ", "d", "o", "i", "n", "g", "\n">>

\* update x done\n
line_update_x == <<"u", "p", "d", "a", "t", "e", " ", "x", " ", "d", "o", "n", "e", "\n">>

\* remove 1\n
line_remove == <<"r", "e", "m", "o", "v", "e", " ", "1", "\n">>

\* delete 3\n
line_delete == <<"d", "e", "l", "e", "t", "e", " ", "3", "\n">>

\* remove x\n
line_remove_x == <<"r", "e", "m", "o", "v", "e", " ", "x", "\n">>

\* clear\n
line_clear == <<"c", "l", "e", "a", "r", "\n">>

\* Save\n
line_save == <<"S", "a", "v", "e", "\n">>

\* bogus 1\n
line_bogus == <<"b", "o", "g", "u", "s", " ", "1", "\n">>

\*  \n
line_blank == <<" ", "\n">>

Lines ==
    { line_exit,
      line_quit,
      line_help,
      line_list,
      line_ls_done,
      line_list_bogus,
      line_add_nothing,
      line_add,
      line_status_done,
      line_update_inprogress,
      line_update_doing,
      line_update_x,
      line_remove,
      line_delete,
      line_remove_x,
      line_clear,
      line_save,
      line_bogus,
      line_blank }

\* the description that line_add adds
cli_desc == <<"a", "\"", " ", "\\", "b">>

\* the tasks written in SeedTwoTasks
SeedTwoTasksStore == <<Task(cli_desc, "Todo"), Task(cli_desc, "InProgress")>>

\* the file found by the first session
MainFiles ==
    { Absent, BinaryFile, TextFile(SeedTwoTasks), TextFile(SeedTruncated),
      TextFile(SeedAliasStatus) }

(***************************************************************************)
(* Specification SpecMain: main                                            *)
(***************************************************************************)
InitMain ==
    /\ tasks = <<>>
    /\ file \in MainFiles
    /\ pc = "start"
    /\ call = [op |-> "start"]
    /\ old = <<>>
    /\ ret = Ok
    /\ saved = NoSave

\* main, lines 25-36: load, or an empty list when load fails
Startup ==
    /\ pc = "start"
    /\ LET r == load(file) IN
         /\ tasks' = IF is_ok(r) THEN r.tasks ELSE TodoList_new
         /\ ret' = r
    /\ pc' = "loop"
    /\ call' = [op |-> "load", from |-> file]
    /\ old' = tasks
    /\ UNCHANGED <<file, saved>>

\* the ghost of the last successful save, after a save with outcome io
saved_after(io) ==
    CASE io = "written" -> [some |-> TRUE, tasks |-> tasks]
      [] io = "create_failed" -> saved
      [] io = "write_failed" -> NoSave

\* main, lines 48-54: the input is trimmed; a blank input has no command
CommandOf ==
    [line \in Lines |->
        IF trim(line) = <<>> THEN [kind |-> "none"]
        ELSE parse_command(trim(line))]

\* the command parsed from a non-blank line
Parses(line, kind) == CommandOf[line].kind = kind

\* a command ran on the store and the loop goes on
Ran(line, out) ==
    /\ tasks' = out.tasks
    /\ ret' = out.ret
    /\ old' = tasks
    /\ call' = [op |-> "command", input |-> line,
                command |-> CommandOf[line]]
    /\ pc' = "loop"

\* read_line fails: the loop goes on
ReadError ==
    /\ pc = "loop"
    /\ call' = [op |-> "read_error"]
    /\ old' = tasks
    /\ ret' = Ok
    /\ UNCHANGED <<tasks, file, pc, saved>>

\* the trimmed input is empty: the loop goes on
BlankLine ==
    /\ pc = "loop"
    /\ \E line \in Lines :
         /\ Parses(line, "none")
         /\ call' = [op |-> "blank", input |-> line]
    /\ old' = tasks
    /\ ret' = Ok
    /\ UNCHANGED <<tasks, file, pc, saved>>

\* Command::Exit breaking out of the loop only when the save succeeded
DoExit_unless_save_failed ==
    /\ pc = "loop"
    /\ \E line \in Lines, io \in IoOutcomes :
         /\ Parses(line, "Exit")
         /\ LET s == save(tasks, file, io) IN
              /\ file' = s.file
              /\ ret' = s.ret
              /\ pc' = IF is_ok(s.ret) THEN "done" ELSE "loop"
         /\ saved' = saved_after(io)
         /\ call' = [op |-> "command", input |-> line,
                     command |-> CommandOf[line]]
    /\ old' = tasks
    /\ UNCHANGED tasks

\* Command::Exit: one save, then break
DoExit ==
    /\ pc = "loop"
    /\ \E line \in Lines, io \in IoOutcomes :
         /\ Parses(line, "Exit")
         /\ LET s == save(tasks, file, io) IN
              /\ file' = s.file
              /\ ret' = s.ret
         /\ saved' = saved_after(io)
         /\ call' = [op |-> "command", input |-> line,
                     command |-> CommandOf[line]]
    /\ old' = tasks
    /\ pc' = "done"
    /\ UNCHANGED tasks

DoHelp ==
    /\ pc = "loop"
    /\ \E line \in Lines :
         /\ Parses(line, "Help")
         /\ Ran(line, Outcome(tasks, Ok))
    /\ UNCHANGED <<file, saved>>

DoList ==
    /\ pc = "loop"
    /\ \E line \in Lines :
         /\ Parses(line, "List")
         /\ Ran(line, Outcome(tasks,
                  OkList(print_tasks(tasks, CommandOf[line]))))
    /\ UNCHANGED <<file, saved>>

DoListByStatus ==
    /\ pc = "loop"
    /\ \E line \in Lines :
         /\ Parses(line, "ListByStatus")
         /\ Ran(line, Outcome(tasks,
                  OkList(print_tasks(tasks, CommandOf[line]))))
    /\ UNCHANGED <<file, saved>>

DoAdd ==
    /\ pc = "loop"
    /\ Len(tasks) < MaxTasks
    /\ \E line \in Lines :
         /\ Parses(line, "Add")
         /\ Ran(line, handle_add(tasks,
                                 CommandOf[line].description))
    /\ UNCHANGED <<file, saved>>

DoUpdate ==
    /\ pc = "loop"
    /\ \E line \in Lines :
         /\ Parses(line, "Update")
         /\ LET c == CommandOf[line] IN
              Ran(line, handle_update(tasks, c.index, c.text))
    /\ UNCHANGED <<file, saved>>

DoRemove ==
    /\ pc = "loop"
    /\ \E line \in Lines :
         /\ Parses(line, "Remove")
         /\ Ran(line, handle_remove(tasks, CommandOf[line].index))
    /\ UNCHANGED <<file, saved>>

DoClear ==
    /\ pc = "loop"
    /\ \E line \in Lines :
         /\ Parses(line, "Clear")
         /\ Ran(line, handle_clear(tasks))
    /\ UNCHANGED <<file, saved>>

DoSave ==
    /\ pc = "loop"
    /\ \E line \in Lines, io \in IoOutcomes :
         /\ Parses(line, "Save")
         /\ LET s == handle_save(tasks, file, io) IN
              /\ file' = s.file
              /\ Ran(line, Outcome(tasks, s.ret))
         /\ saved' = saved_after(io)

DoUnknown ==
    /\ pc = "loop"
    /\ \E line \in Lines :
         /\ Parses(line, "Unknown")
         /\ Ran(line, Outcome(tasks, Ok))
    /\ UNCHANGED <<file, saved>>

\* the program is run again on the same file
Restart ==
    /\ pc = "done"
    /\ pc' = "start"
    /\ tasks' = <<>>
    /\ old' = <<>>
    /\ ret' = Ok
    /\ call' = [op |-> "start"]
    /\ UNCHANGED <<file, saved>>

NextMain ==
    \/ Startup
    \/ ReadError
    \/ BlankLine
    \/ DoExit
    \/ DoHelp
    \/ DoList
    \/ DoListByStatus
    \/ DoAdd
    \/ DoUpdate
    \/ DoRemove
    \/ DoClear
    \/ DoSave
    \/ DoUnknown
    \/ Restart

SpecMain == InitMain /\ [][NextMain]_vars

(***************************************************************************)
(* Properties of the TodoList API, checked under Spec                      *)
(***************************************************************************)
\* a description that is non-empty and neither starts nor ends with whitespace
WellFormedDescription(d) ==
    /\ Len(d) > 0
    /\ ~is_whitespace(d[1])
    /\ ~is_whitespace(d[Len(d)])

\* C1: in every reachable state of the store, constructed empty or loaded
\* from a file, every task's description is non-empty, not whitespace-only
\* and equal to its trimmed form.
C1_DescriptionsTrimmed ==
    \A i \in 1..Len(tasks) : WellFormedDescription(tasks[i].description)

\* the text each description of RawDescs trims to
TrimmedText(d) ==
    CASE d = <<>> -> <<>>
      [] d = <<" ", "\t">> -> <<>>
      [] d = <<"a">> -> <<"a">>
      [] d = <<" ", "a", "\n">> -> <<"a">>
      [] d = <<"b", " ", "c">> -> <<"b", " ", "c">>

\* C2: add(D) with trim(D) non-empty succeeds, appends the task
\* (trim(D), Todo) at index N+1 and leaves tasks 1..N as they were; with
\* trim(D) empty it fails with EmptyDescription and the store is unchanged.
C2_Add ==
    call.op = "add" =>
        LET d == TrimmedText(call.description) IN
        IF d # <<>>
        THEN /\ ret = Ok
             /\ Len(tasks) = Len(old) + 1
             /\ tasks[Len(old) + 1] = [description |-> d, status |-> "Todo"]
             /\ \A i \in 1..Len(old) : tasks[i] = old[i]
        ELSE /\ ret = EmptyDescription
             /\ tasks = old

\* a padded description was added to a store that already holds its trimmed
\* form
C2_Witness ==
    /\ call.op = "add"
    /\ call.description = <<" ", "a", "\n">>
    /\ ret = Ok
    /\ Len(old) >= 1
    /\ old[1].description = <<"a">>
    /\ Len(tasks) = Len(old) + 1

\* C3: updateStatus(0, s) fails with InvalidIndex, updateStatus(i, s) with
\* i > N fails with IndexOutOfBound(i), both leaving the store unchanged;
\* updateStatus(k, s) with 1 <= k <= N succeeds and changes only the status
\* of task k.
C3_UpdateStatus ==
    call.op = "update" =>
        LET i == call.index
            n == Len(old)
        IN
        /\ i = 0 => ret = InvalidIndex /\ tasks = old
        /\ i > n => ret = IndexOutOfBound(i) /\ tasks = old
        /\ (1 <= i /\ i <= n) =>
              /\ ret = Ok
              /\ Len(tasks) = n
              /\ tasks[i].status = call.status
              /\ tasks[i].description = old[i].description
              /\ \A j \in 1..n : j # i => tasks[j] = old[j]

\* the status of the middle task of three was changed
C3_Witness ==
    /\ call.op = "update"
    /\ call.index = 2
    /\ Len(old) = 3
    /\ ret = Ok
    /\ old[2].status # call.status
    /\ tasks[2].status = call.status

\* C4: remove(k) with 1 <= k <= N returns the task that was at k, the count
\* drops by one, tasks before k stay and each task after k moves down by one;
\* remove(0) fails with InvalidIndex and remove(i), i > N, with
\* IndexOutOfBound(i), the store unchanged.
C4_Remove ==
    call.op = "remove" =>
        LET k == call.index
            n == Len(old)
        IN
        /\ k = 0 => ret = InvalidIndex /\ tasks = old
        /\ k > n => ret = IndexOutOfBound(k) /\ tasks = old
        /\ (1 <= k /\ k <= n) =>
              /\ ret = [kind |-> "OkTask", task |-> old[k]]
              /\ Len(tasks) = n - 1
              /\ \A p \in 1..(k - 1) : tasks[p] = old[p]
              /\ \A p \in (k + 1)..n : tasks[p - 1] = old[p]

\* the middle one of three different tasks was removed
C4_Witness ==
    /\ call.op = "remove"
    /\ call.index = 2
    /\ Len(old) = 3
    /\ old[1] # old[2]
    /\ old[2] # old[3]
    /\ ret.kind = "OkTask"
    /\ Len(tasks) = 2

\* the position in ts of the j-th task that is not Completed
KeptPosition(ts, j) ==
    CHOOSE i \in 1..Len(ts) :
        /\ ts[i].status # "Completed"
        /\ Cardinality({k \in 1..i : ts[k].status # "Completed"}) = j

\* C5: clearCompleted() removes exactly the Completed tasks, keeps the others
\* in their order and unchanged, and returns the number removed; afterwards
\* no task is Completed.
C5_ClearCompleted ==
    call.op = "clear" =>
        LET kept == {i \in 1..Len(old) : old[i].status # "Completed"} IN
        /\ Len(tasks) = Cardinality(kept)
        /\ \A j \in 1..Len(tasks) : tasks[j] = old[KeptPosition(old, j)]
        /\ ret = [kind |-> "OkCount", n |-> Len(old) - Len(tasks)]
        /\ \A j \in 1..Len(tasks) : tasks[j].status # "Completed"

\* a Completed task between a Todo and an InProgress task was cleared
C5_Witness ==
    /\ call.op = "clear"
    /\ Len(old) = 3
    /\ old[1].status = "Todo"
    /\ old[2].status = "Completed"
    /\ old[3].status = "InProgress"
    /\ ret = [kind |-> "OkCount", n |-> 1]
    /\ Len(tasks) = 2

\* C7: list() returns the pairs (i, task i) for i = 1..N in order, and
\* filterByStatus(s) returns those of them whose status is s, in the same
\* order and with the position in the full list; neither changes the store.
C7_ListAndFilter ==
    /\ call.op = "list" =>
          /\ tasks = old
          /\ ret.kind = "OkList"
          /\ Len(ret.items) = Len(tasks)
          /\ \A i \in 1..Len(tasks) : ret.items[i] = <<i, tasks[i]>>
    /\ call.op = "filter" =>
          /\ tasks = old
          /\ ret.kind = "OkList"
          /\ \A j \in 1..Len(ret.items) :
                LET i == ret.items[j][1] IN
                /\ i \in 1..Len(tasks)
                /\ ret.items[j] = <<i, tasks[i]>>
                /\ tasks[i].status = call.status
          /\ \A j \in 1..(Len(ret.items) - 1) :
                ret.items[j][1] < ret.items[j + 1][1]
          /\ \A i \in 1..Len(tasks) :
                tasks[i].status = call.status =>
                    \E j \in 1..Len(ret.items) : ret.items[j][1] = i

\* a filter whose matches are the second and third task of the list
C7_Witness ==
    /\ call.op = "filter"
    /\ Len(tasks) = 3
    /\ tasks[1].status # call.status
    /\ Len(ret.items) = 2
    /\ ret.items[1][1] = 2
    /\ ret.items[2][1] = 3

\* the status each text of StatusTexts stands for, "none" for no alias
AliasStatus(t) ==
    CASE t = <<"t","o","d","o">> -> "Todo"
      [] t = <<"T","o","-","D","o">> -> "Todo"
      [] t = <<"D","O","N","E">> -> "Completed"
      [] t = <<"c","o","m","p","l","e","t","e","d">> -> "Completed"
      [] t = <<"i","n","-","p","r","o","g","r","e","s","s">> -> "InProgress"
      [] t = <<"I","n","P","r","o","g","r","e","s","s">> -> "InProgress"
      [] OTHER -> "none"

\* C10: updateStatusFromText parses the text before it validates the index:
\* a text that is no alias fails with InvalidStatus(text) for every index and
\* leaves the store unchanged; an alias gives the result and the effect of
\* updateStatus(index, parsed status).
C10_UpdateStatusFromText ==
    call.op = "update_str" =>
        LET s == AliasStatus(call.text) IN
        IF s = "none"
        THEN /\ ret = [kind |-> "InvalidStatus", text |-> call.text]
             /\ tasks = old
        ELSE /\ tasks = update_task_status(old, call.index, s).tasks
             /\ ret = update_task_status(old, call.index, s).ret
             /\ (1 <= call.index /\ call.index <= Len(old)) =>
                    tasks[call.index].status = s

\* a text that is no alias was given together with index 0
C10_Witness ==
    /\ call.op = "update_str"
    /\ call.index = 0
    /\ call.text = <<"d","o","i","n","g">>
    /\ ret.kind = "InvalidStatus"
    /\ Len(old) >= 1

(***************************************************************************)
(* Properties of the program, checked under SpecMain                       *)
(***************************************************************************)
\* the last command was a save or an exit
SaveAttempted ==
    /\ call.op = "command"
    /\ call.command.kind \in {"Save", "Exit"}

\* C6: a successful save of the store followed by a load of the same file
\* yields a store with the same (description, status) pairs in the same
\* order, and the save leaves the store itself unchanged.
C6_RoundTrip ==
    /\ (call.op = "load" /\ saved.some) =>
          /\ ret = [kind |-> "OkStore", tasks |-> saved.tasks]
          /\ tasks = saved.tasks
    /\ SaveAttempted => tasks = old
    /\ (SaveAttempted /\ ret = Ok) =>
          /\ saved = [some |-> TRUE, tasks |-> tasks]
          /\ file.kind = "text"

\* a session loaded three tasks of different statuses, with a quote, a space
\* and a backslash in the description, that an earlier session had saved
C6_Witness ==
    /\ call.op = "load"
    /\ saved.some
    /\ Len(tasks) = 3
    /\ tasks[1].description = cli_desc
    /\ tasks[1].status = "Completed"
    /\ tasks[2].status = "InProgress"
    /\ tasks[3].status = "Todo"

\* the input lines whose first word is exit or quit
ExitLines == {line_exit, line_quit}

\* C8: exit or quit attempts one save and the loop ends whether the save
\* succeeded or failed; afterwards nothing is saved again by that process;
\* no other input ends the loop.
C8_ExitSavesOnce ==
    /\ [][pc = "loop" =>
            /\ (pc' = "done") <=> (call'.op = "command"
                                   /\ call'.input \in ExitLines)
            /\ pc' \in {"loop", "done"}]_vars
    /\ [][pc' = "done" /\ pc = "loop" =>
            /\ ret'.kind \in {"Ok", "FileError"}
            /\ tasks' = tasks
            /\ ret' = Ok =>
                  file' = [kind |-> "text", text |-> to_string_pretty(tasks)]
            /\ ret' = FileError =>
                  file' \in {file, [kind |-> "text", text |-> <<>>]}]_vars
    /\ [][pc = "done" => file' = file /\ saved' = saved]_vars

\* the loop ended after a save that failed
C8_Witness ==
    /\ pc = "done"
    /\ call.op = "command"
    /\ call.input = line_quit
    /\ ret = FileError
    /\ Len(tasks) >= 1

\* hand-written files that are text but not a list of tasks
MalformedFiles ==
    { [kind |-> "text", text |-> <<>>],
      [kind |-> "text", text |-> SeedTruncated],
      [kind |-> "text", text |-> SeedAliasStatus] }

\* C9: at startup load fails with FileError when the file cannot be read and
\* with SerializationError when it is malformed, and the loop then starts
\* with an empty store; a successful load starts the loop with the tasks of
\* the file.
C9_StartupLoad ==
    call.op = "load" =>
        /\ pc = "loop"
        /\ call.from = file
        /\ file.kind \in {"absent", "binary"} =>
              ret = FileError /\ tasks = <<>>
        /\ file \in MalformedFiles =>
              ret = SerializationError /\ tasks = <<>>
        /\ file = [kind |-> "text", text |-> SeedTwoTasks] =>
              /\ ret = [kind |-> "OkStore", tasks |-> SeedTwoTasksStore]
              /\ tasks = SeedTwoTasksStore
        /\ ret.kind = "OkStore" => tasks = ret.tasks
        /\ ret.kind # "OkStore" => tasks = <<>>

\* a later session found the file cut short by a failed write and started
\* with an empty store
C9_Witness ==
    /\ call.op = "load"
    /\ pc = "loop"
    /\ file = [kind |-> "text", text |-> <<>>]
    /\ ret = SerializationError
    /\ tasks = <<>>

====
